---- MODULE Spec2Model ----
(***************************************************************************)
(* Employee / schedule demo (app.py): the session state (employee          *)
(* directory, per-date shift assignments, per-month closed days), the      *)
(* handlers that change it, and the pure helpers they call.                *)
(*                                                                         *)
(* Text typed or uploaded by the operator is a sequence of one-character   *)
(* strings; text the program stores (names, date keys, weekday tokens) is  *)
(* a string.  A dict is a function whose DOMAIN is the set of its keys; a  *)
(* list is a sequence.                                                     *)
(***************************************************************************)
EXTENDS Integers, Sequences, FiniteSets, TLC

VARIABLES employees, assignments, closed, last

vars == <<employees, assignments, closed, last>>

----------------------------------------------------------------------------
(* Program constants *)

\* The module is written in ASCII.  The weekday tokens of KOREAN_DAYS, each one
\* Hangul character in the source (Monday .. Sunday), are the single letters
\* M T W H F S U; the employment types of EMP_TYPES and the two threshold flags
\* carry the English names the specification gives them.  The white-space
\* characters of WhiteSpace are written as themselves where the language
\* reads them in a string, and by their code point ("U+2003") where it does
\* not.
KOREAN_DAYS == <<"M", "T", "W", "H", "F", "S", "U">>

EMP_TYPES == <<"InsuredStandard", "ShortHour", "BusinessIncome", "DailyWorker">>

\* the no-break space, U+00A0
NBSP == " "

----------------------------------------------------------------------------
(* Bounds of the model *)

\* the longest employee directory
MaxEmp == 2

\* the longest day list a manual add extends
MaxRows == 2

\* (year, month) pairs the operator selects in the calendar header
Months == {<<2026, 1>>, <<2026, 2>>}

\* the months whose closed-day dialog the operator opens
ClosedMonths == {<<2026, 1>>}

\* the months whose threshold banner is evaluated: 28, 30 and 31 days
FlagMonths == {<<2026, 2>>, <<2026, 4>>, <<2026, 1>>}

\* the longest text given to the day-token parser, over TextAlphabet
MaxText == 4

TextAlphabet == {"M", "W", ",", "/", " ", "x", NBSP}

\* the longest uploaded sheet whose import is examined row by row
MaxSheet == 2

\* the date whose day card the operator opens (a Monday)
ManualDates == {<<2026, 1, 5>>}

\* names typed into the day form when the directory is empty (before strip)
NameTexts == {<<" ", NBSP>>, <<NBSP, "B", " ">>}

\* what the operator enters in the employee form: name, type, weekdays
FormInputs ==
    {<<<<" ", NBSP>>, "InsuredStandard", <<>>>>,
     <<<<"A", NBSP>>, "InsuredStandard", <<"M">>>>}

\* what the operator enters in the day form: type and shift times (not the
\* defaults of an automatic row)
ShiftInputs ==
    {<<"BusinessIncome", [clock_in |-> "10:00", clock_out |-> "15:00", break |-> 0, wage |-> 12000]>>}

----------------------------------------------------------------------------
(* Text helpers *)

\* a missing cell (NaN) or None, as a value no text equals
NaN == <<"<missing>">>

\* pd.isna(raw)
IsNa(raw) == raw = NaN

\* str(raw)
Str(raw) == IF IsNa(raw) THEN <<"n", "a", "n">> ELSE raw

RECURSIVE Join(_)
Join(chars) == IF chars = <<>> THEN "" ELSE Head(chars) \o Join(Tail(chars))

\* the characters for which str.isspace() holds: tab, line feed, vertical
\* tab, form feed, carriage return, U+001C..U+001F, space, U+0085, U+00A0,
\* U+1680, U+2000..U+200A, U+2028, U+2029, U+202F, U+205F, U+3000
WhiteSpace ==
    {"\t", "\n", "", "\f", "\r", "", "", "", "", " ", "", NBSP, " ",
     "U+2000", "U+2001", "U+2002", "U+2003", "U+2004", "U+2005", "U+2006",
     "U+2007", "U+2008", "U+2009", "U+200A", "U+2028", "U+2029", "U+202F",
     "U+205F", "U+3000"}

\* ch.isspace()
IsSpace(ch) == ch \in WhiteSpace

RECURSIVE LStrip(_)
LStrip(chars) ==
    IF chars # <<>> /\ IsSpace(Head(chars)) THEN LStrip(Tail(chars)) ELSE chars

RECURSIVE RStrip(_)
RStrip(chars) ==
    IF chars # <<>> /\ IsSpace(chars[Len(chars)])
    THEN RStrip(SubSeq(chars, 1, Len(chars) - 1))
    ELSE chars

\* str.strip()
Strip(chars) == RStrip(LStrip(chars))

----------------------------------------------------------------------------
(* Date keys and the calendar *)

Pad2(n) == IF n < 10 THEN "0" \o ToString(n) ELSE ToString(n)

Pad4(n) ==
    IF n < 10 THEN "000" \o ToString(n)
    ELSE IF n < 100 THEN "00" \o ToString(n)
    ELSE IF n < 1000 THEN "0" \o ToString(n)
    ELSE ToString(n)

ymd(y, m, d) == Pad4(y) \o "-" \o Pad2(m) \o "-" \o Pad2(d)

ym(y, m) == Pad4(y) \o "-" \o Pad2(m)

IsLeap(y) == (y % 4 = 0 /\ y % 100 # 0) \/ y % 400 = 0

\* calendar.monthrange(year, month)[1]
DaysInMonth(y, m) ==
    IF m = 2 THEN (IF IsLeap(y) THEN 29 ELSE 28)
    ELSE IF m \in {4, 6, 9, 11} THEN 30 ELSE 31

RECURSIVE DaysBeforeMonth(_, _)
DaysBeforeMonth(y, m) ==
    IF m = 1 THEN 0 ELSE DaysBeforeMonth(y, m - 1) + DaysInMonth(y, m - 1)

DaysBeforeYear(y) ==
    (y - 1) * 365 + ((y - 1) \div 4) - ((y - 1) \div 100) + ((y - 1) \div 400)

\* a weekday read off the day number, as if every month began on a Monday
WeekdayByDayNumber(y, m, d) == (d - 1) % 7

\* date(y, m, d).weekday(): Monday = 0 .. Sunday = 6
Weekday(y, m, d) == (DaysBeforeYear(y) + DaysBeforeMonth(y, m) + d + 6) % 7

\* calendar.Calendar(firstweekday=0).monthdayscalendar(year, month), its weeks
\* laid end to end: 0 marks a cell outside the month
MonthCells(y, m) ==
    LET lead  == Weekday(y, m, 1)
        total == lead + DaysInMonth(y, m)
        weeks == (total + 6) \div 7
    IN  [i \in 1..(7 * weeks) |->
            IF i - lead \in 1..DaysInMonth(y, m) THEN i - lead ELSE 0]

monthdayscalendar(y, m) ==
    LET cells == MonthCells(y, m)
    IN  [w \in 1..(Len(cells) \div 7) |-> SubSeq(cells, 7 * (w - 1) + 1, 7 * w)]

\* the dates of the months the operator can display
DatesOf(months) == UNION {{<<p[1], p[2], d>> : d \in 1..DaysInMonth(p[1], p[2])} : p \in months}

AllDates == DatesOf(Months \cup FlagMonths)

\* the date each key was formatted from
DateOfKey ==
    [k \in {ymd(t[1], t[2], t[3]) : t \in AllDates} |->
        CHOOSE t \in AllDates : ymd(t[1], t[2], t[3]) = k]

\* y, m, d = map(int, day_key.split("-"))
ParseKey(key) == DateOfKey[key]

----------------------------------------------------------------------------
(* Session state *)

Get(dict, key, default) == IF key \in DOMAIN dict THEN dict[key] ELSE default

Put(dict, key, val) ==
    [k \in DOMAIN dict \cup {key} |-> IF k = key THEN val ELSE dict[k]]

Pop(dict, key) == [k \in DOMAIN dict \ {key} |-> dict[k]]

EmptyDict == [k \in {} |-> 0]

Init ==
    /\ employees = <<>>
    /\ assignments = EmptyDict
    /\ closed = EmptyDict
    /\ last = [op |-> "init"]

----------------------------------------------------------------------------
(* Auto assignment *)

Names(day_list) == {day_list[i].name : i \in DOMAIN day_list}

Has(seq, x) == \E i \in DOMAIN seq : seq[i] = x

DefaultRow(emp) ==
    [name |-> emp.name, employment_type |-> emp.employment_type,
     clock_in |-> "09:00", clock_out |-> "18:00", break |-> 60, wage |-> 10000]

\* the loop over candidates without the check of the names already present
RECURSIVE AppendCandidatesAll(_, _)
AppendCandidatesAll(day_list, candidates) ==
    IF candidates = <<>> THEN day_list
    ELSE AppendCandidatesAll(Append(day_list, DefaultRow(Head(candidates))), Tail(candidates))

\* the loop over candidates: skip a name already in the day's list
RECURSIVE AppendCandidates(_, _)
AppendCandidates(day_list, candidates) ==
    IF candidates = <<>> THEN day_list
    ELSE LET emp == Head(candidates)
         IN  IF emp.name \in Names(day_list)
             THEN AppendCandidates(day_list, Tail(candidates))
             ELSE AppendCandidates(Append(day_list, DefaultRow(emp)), Tail(candidates))

RECURSIVE Flatten(_)
Flatten(weeks) == IF weeks = <<>> THEN <<>> ELSE Head(weeks) \o Flatten(Tail(weeks))

\* the cells the loops over cal and wk visit that pass the first test: a day
\* of the month that is not closed
OpenCells(cl, y, m) ==
    LET cells == Flatten(monthdayscalendar(y, m))
    IN  {cells[i] : i \in {j \in DOMAIN cells : ~(cells[j] = 0 \/ cells[j] \in cl)}}

\* candidates: the employees available on the weekday of day d, in directory order
Candidates(emps, y, m, d) ==
    SelectSeq(emps, LAMBDA e : Has(e.available_days, KOREAN_DAYS[Weekday(y, m, d) + 1]))

\* the days whose list is fetched without looking at the candidates first
SetDefaultDaysEager(emps, cl, y, m) == OpenCells(cl, y, m)

\* the days that reach setdefault: open, with a candidate
SetDefaultDays(emps, cl, y, m) ==
    {d \in OpenCells(cl, y, m) : Candidates(emps, y, m, d) # <<>>}

\* auto_assign_for_month: the assignments it leaves.  Every cell of the
\* calendar is another day and writes another key, so the loop is given key by
\* key: the key of a day that reaches setdefault gets the candidates appended,
\* every other key is as it was.
auto_assign_for_month(asg, emps, cls, y, m) ==
    LET cl == Get(cls, ym(y, m), {})
        days == SetDefaultDays(emps, cl, y, m)
        dayOf == [k \in {ymd(y, m, d) : d \in days} |-> CHOOSE d \in days : ymd(y, m, d) = k]
    IN  [k \in DOMAIN asg \cup DOMAIN dayOf |->
            IF k \in DOMAIN dayOf
            THEN AppendCandidates(Get(asg, k, <<>>), Candidates(emps, y, m, dayOf[k]))
            ELSE asg[k]]

----------------------------------------------------------------------------
(* Day-token parser *)

Separators == {"|", "/", ";", " ", "·", "ㆍ"}

\* s.replace(sep, ",") for every separator
ReplaceSeps(s) == [i \in DOMAIN s |-> IF s[i] \in Separators THEN "," ELSE s[i]]

\* the character loop of the no-separator branch: close a part at each weekday
RECURSIVE GluedLoop(_, _, _)
GluedLoop(chars, buf, parts) ==
    IF chars = <<>> THEN (IF buf # <<>> THEN Append(parts, buf) ELSE parts)
    ELSE LET b == Append(buf, Head(chars))
         IN  IF Has(KOREAN_DAYS, Head(chars))
             THEN GluedLoop(Tail(chars), <<>>, Append(parts, b))
             ELSE GluedLoop(Tail(chars), b, parts)

\* s.split(",")
RECURSIVE Split(_, _, _)
Split(chars, buf, parts) ==
    IF chars = <<>> THEN Append(parts, buf)
    ELSE IF Head(chars) = "," THEN Split(Tail(chars), <<>>, Append(parts, buf))
    ELSE Split(Tail(chars), Append(buf, Head(chars)), parts)

\* [p.strip() for p in s.split(",") if p.strip()]
RECURSIVE StripParts(_)
StripParts(parts) ==
    IF parts = <<>> THEN <<>>
    ELSE LET p == Strip(Head(parts))
         IN  IF p = <<>> THEN StripParts(Tail(parts)) ELSE <<p>> \o StripParts(Tail(parts))

\* the first weekday, in KOREAN_DAYS order, found in the part: <<d>>, or <<>>
RECURSIVE FirstDayIn(_, _)
FirstDayIn(p, i) ==
    IF i > Len(KOREAN_DAYS) THEN <<>>
    ELSE IF Has(p, KOREAN_DAYS[i]) THEN <<KOREAN_DAYS[i]>>
    ELSE FirstDayIn(p, i + 1)

RECURSIVE MatchParts(_)
MatchParts(parts) ==
    IF parts = <<>> THEN <<>> ELSE FirstDayIn(Head(parts), 1) \o MatchParts(Tail(parts))

\* the matches as they are, repeats kept
DedupeNone(days, out) == days

\* drop repeats, keep order
RECURSIVE Dedupe(_, _)
Dedupe(days, out) ==
    IF days = <<>> THEN out
    ELSE IF Has(out, Head(days)) THEN Dedupe(Tail(days), out)
    ELSE Dedupe(Tail(days), Append(out, Head(days)))

normalize_days(raw) ==
    IF IsNa(raw) THEN <<>>
    ELSE LET s0 == Strip(Str(raw))
         IN  IF s0 = <<>> THEN <<>>
             ELSE LET s == ReplaceSeps(s0)
                      parts == IF ~Has(s, ",") THEN GluedLoop(s, <<>>, <<>>)
                               ELSE StripParts(Split(s, <<>>, <<>>))
                  IN  Dedupe(MatchParts(parts), <<>>)

----------------------------------------------------------------------------
(* Spreadsheet import *)

\* the loop of df_to_employees over the rows, idx counting from 0
RECURSIVE ImportLoop(_, _, _, _)
ImportLoop(rows, idx, added, skipped_info) ==
    IF rows = <<>> THEN [added |-> added, skipped |-> skipped_info]
    ELSE LET r == Head(rows)
             row_no == idx + 2
             name == Join(Strip(Str(r.name)))
             et_raw == Join(Strip(Str(r.employment_type)))
             et == IF Has(EMP_TYPES, et_raw) THEN et_raw ELSE EMP_TYPES[1]
         IN  IF name = ""
             THEN ImportLoop(Tail(rows), idx + 1, added,
                             Append(skipped_info, <<row_no, "missing name">>))
             ELSE ImportLoop(Tail(rows), idx + 1,
                             Append(added,
                                 [name |-> name,
                                  phone |-> Join(Strip(Str(r.phone))),
                                  role |-> Join(Strip(Str(r.role))),
                                  employment_type |-> et,
                                  available_days |-> normalize_days(r.available_days)]),
                             skipped_info)

df_to_employees(rows) == ImportLoop(rows, 0, <<>>, <<>>)

----------------------------------------------------------------------------
(* Staffing threshold *)

Max(a, b) == IF a >= b THEN a ELSE b

\* the names of all the day's rows
UniqAll(arr) == {arr[i].name : i \in DOMAIN arr}

\* the names of the day's rows that are not business income
Uniq(arr) == {arr[i].name : i \in {j \in DOMAIN arr : arr[j].employment_type # "BusinessIncome"}}

\* the loop over d = 1 .. last, carrying (operating, meet)
RECURSIVE FlagLoop(_, _, _, _, _, _, _, _)
FlagLoop(asg, cl, y, m, d, lastday, operating, meet) ==
    IF d > lastday THEN <<operating, meet>>
    ELSE IF d \in cl THEN FlagLoop(asg, cl, y, m, d + 1, lastday, operating, meet)
    ELSE LET uniq == Uniq(Get(asg, ymd(y, m, d), <<>>))
         IN  FlagLoop(asg, cl, y, m, d + 1, lastday, operating + 1,
                      IF Cardinality(uniq) >= 5 THEN meet + 1 ELSE meet)

\* meet >= denom / 2, a true division: the same as 2 * meet >= denom on integers
MeetsHalf(meet, denom) == 2 * meet >= denom

\* the denominator without its floor
DenomNoFloor(operating) == operating

\* denom = max(1, operating)
Denom(operating) == Max(1, operating)

\* biz_flag_for_month: <<flag, meet, denom>>
biz_flag_for_month(asg, cls, y, m) ==
    LET r == FlagLoop(asg, Get(cls, ym(y, m), {}), y, m, 1, DaysInMonth(y, m), 0, 0)
        meet == r[2]
        denom == Denom(r[1])
    IN  <<IF MeetsHalf(meet, denom) THEN "5-or-more" ELSE "under-5", meet, denom>>

----------------------------------------------------------------------------
(* Worked minutes *)

\* hhmm.split(":")
RECURSIVE SplitColon(_, _, _)
SplitColon(chars, buf, parts) ==
    IF chars = <<>> THEN Append(parts, buf)
    ELSE IF Head(chars) = ":"
         THEN SplitColon(Tail(chars), <<>>, Append(parts, buf))
         ELSE SplitColon(Tail(chars), Append(buf, Head(chars)), parts)

DigitValue ==
    [ch \in {"0", "1", "2", "3", "4", "5", "6", "7", "8", "9"} |->
        CASE ch = "0" -> 0 [] ch = "1" -> 1 [] ch = "2" -> 2 [] ch = "3" -> 3
          [] ch = "4" -> 4 [] ch = "5" -> 5 [] ch = "6" -> 6 [] ch = "7" -> 7
          [] ch = "8" -> 8 [] ch = "9" -> 9]

\* int() of a text of decimal digits
RECURSIVE IntOf(_, _)
IntOf(digits, acc) ==
    IF digits = <<>> THEN acc
    ELSE IntOf(Tail(digits), 10 * acc + DigitValue[Head(digits)])

\* hh, mm = hhmm.split(":"); int(hh) * 60 + int(mm)
to_min(hhmm) ==
    LET hm == SplitColon(hhmm, <<>>, <<>>)
    IN  IntOf(hm[1], 0) * 60 + IntOf(hm[2], 0)

\* the break taken as given, negative or not
BreakSigned(brk) == IF brk = 0 THEN 0 ELSE brk

\* max(0, int(brk or 0))
BreakOf(brk) == Max(0, IF brk = 0 THEN 0 ELSE brk)

minutes_between(cin, cout, brk) == Max(0, to_min(cout) - to_min(cin) - BreakOf(brk))

----------------------------------------------------------------------------
(* Handlers *)

EmployeeNames == {employees[i].name : i \in DOMAIN employees}

\* emp_form submit
AddEmployee(text, emp_type, days) ==
    /\ LET name == Join(Strip(text))
       IN  IF name = ""
           THEN UNCHANGED <<employees, assignments, closed>>
           ELSE /\ Len(employees) < MaxEmp
                /\ employees' = Append(employees,
                        [name |-> name, phone |-> "", role |-> "",
                         employment_type |-> emp_type, available_days |-> days])
                /\ UNCHANGED <<assignments, closed>>
    /\ last' = [op |-> "add_employee"]

\* the upload handler: one new file, already read into rows
Upload(rows) ==
    /\ LET got == df_to_employees(rows)
       IN  /\ Len(employees) + Len(got.added) <= MaxEmp
           /\ employees' = employees \o got.added
           /\ last' = [op |-> "upload"]
    /\ UNCHANGED <<assignments, closed>>

\* the auto-assign button
AutoAssign(y, m) ==
    /\ assignments' = auto_assign_for_month(assignments, employees, closed, y, m)
    /\ UNCHANGED <<employees, closed>>
    /\ last' = [op |-> "auto_assign", y |-> y, m |-> m]

\* the closed-days dialog, saved with the days ticked
SetClosed(y, m, picked) ==
    /\ closed' = Put(closed, ym(y, m), picked)
    /\ UNCHANGED <<employees, assignments>>
    /\ last' = [op |-> "set_closed"]

\* the day card's button is disabled on a closed day
CanOpenDay(y, m, d) == d \notin Get(closed, ym(y, m), {})

\* the day form without the automatic registration
EnsureEmployeeNever(emps, name_final, emp_type, day_key) == emps

\* the employee list after the day form's automatic registration
EnsureEmployee(emps, name_final, emp_type, day_key) ==
    IF \E i \in DOMAIN emps : emps[i].name = name_final THEN emps
    ELSE LET t == ParseKey(day_key)
             wday == KOREAN_DAYS[Weekday(t[1], t[2], t[3]) + 1]
         IN  Append(emps, [name |-> name_final, phone |-> "", role |-> "",
                           employment_type |-> emp_type, available_days |-> <<wday>>])

\* the day list after the day form's save
AddItem(asg, day_key, item) == Put(asg, day_key, Append(Get(asg, day_key, <<>>), item))

\* the day form's submit: name_sel is a directory name when there is one,
\* else the text typed
AddShift(y, m, d, name_sel, emp_type, shift) ==
    /\ CanOpenDay(y, m, d)
    /\ LET day_key == ymd(y, m, d)
           name_final == IF employees # <<>> THEN name_sel ELSE Join(Strip(name_sel))
           item == [name |-> name_final, employment_type |-> emp_type,
                    clock_in |-> shift.clock_in, clock_out |-> shift.clock_out,
                    break |-> shift.break, wage |-> shift.wage]
       IN  /\ IF name_final = ""
              THEN UNCHANGED <<employees, assignments>>
              ELSE /\ Len(Get(assignments, day_key, <<>>)) < MaxRows
                   /\ employees' = EnsureEmployee(employees, name_final, emp_type, day_key)
                   /\ assignments' = AddItem(assignments, day_key, item)
           /\ last' = [op |-> "add_shift", key |-> day_key, name |-> name_final]
    /\ UNCHANGED closed

\* the row delete without the removal of the emptied date
PopRowKeepEmpty(asg, day_key, idx) ==
    Put(asg, day_key, SubSeq(asg[day_key], 1, idx - 1)
                      \o SubSeq(asg[day_key], idx + 1, Len(asg[day_key])))

\* day_list.pop(idx), and the key dropped when the list is left empty
PopRow(asg, day_key, idx) ==
    LET day_list == asg[day_key]
        left == SubSeq(day_list, 1, idx - 1) \o SubSeq(day_list, idx + 1, Len(day_list))
    IN  IF left # <<>> THEN Put(asg, day_key, left) ELSE Pop(asg, day_key)

\* a row's delete button in the day dialog
RemoveShift(y, m, d, idx) ==
    /\ CanOpenDay(y, m, d)
    /\ ymd(y, m, d) \in DOMAIN assignments
    /\ idx \in DOMAIN assignments[ymd(y, m, d)]
    /\ assignments' = PopRow(assignments, ymd(y, m, d), idx)
    /\ UNCHANGED <<employees, closed>>
    /\ last' = [op |-> "remove_shift", key |-> ymd(y, m, d)]

\* the cascade without the removal of the emptied dates
RemoveRowsKeepEmpty(asg, name_del) ==
    [k \in DOMAIN asg |-> SelectSeq(asg[k], LAMBDA r : r.name # name_del)]

\* the cascade of the employee delete: every date loses the rows of name_del,
\* and a date left with no row loses its key
RemoveRows(asg, name_del) ==
    LET kept(k) == SelectSeq(asg[k], LAMBDA r : r.name # name_del)
    IN  [k \in {j \in DOMAIN asg : kept(j) # <<>>} |-> kept(k)]

\* an employee's delete button
RemoveEmployee(i) ==
    /\ i \in DOMAIN employees
    /\ employees' = SubSeq(employees, 1, i - 1) \o SubSeq(employees, i + 1, Len(employees))
    /\ assignments' = RemoveRows(assignments, employees[i].name)
    /\ UNCHANGED closed
    /\ last' = [op |-> "remove_employee", name |-> employees[i].name,
                hit |-> {k \in DOMAIN assignments : employees[i].name \in Names(assignments[k])},
                dropped |-> DOMAIN assignments \ DOMAIN assignments']

----------------------------------------------------------------------------
(* Inputs *)

\* the directory names the day form's select box offers, or the text typed
ShiftNames == IF employees # <<>> THEN EmployeeNames ELSE NameTexts

Cell(name, emp_type, days) ==
    [name |-> name, phone |-> <<>>, role |-> <<>>, employment_type |-> emp_type,
     available_days |-> days]

\* uploaded sheets, as the rows read_excel returns
Sheets ==
    {<<Cell(<<NBSP>>, <<"DailyWorker">>, NaN),
       Cell(<<"B", " ">>, <<"parttime">>, <<"H", "/", "M">>)>>}

\* closed-day choices of the dialog
ClosedChoices == {{}, {5}}

Next ==
    \/ \E f \in FormInputs : AddEmployee(f[1], f[2], f[3])
    \/ \E rows \in Sheets : Upload(rows)
    \/ \E p \in Months : AutoAssign(p[1], p[2])
    \/ \E p \in ClosedMonths : \E picked \in ClosedChoices : SetClosed(p[1], p[2], picked)
    \/ \E t \in ManualDates : \E n \in ShiftNames, sh \in ShiftInputs :
           AddShift(t[1], t[2], t[3], n, sh[1], sh[2])
    \/ \E t \in ManualDates, idx \in 1..(MaxRows + MaxEmp) : RemoveShift(t[1], t[2], t[3], idx)
    \/ \E i \in 1..MaxEmp : RemoveEmployee(i)

Spec == Init /\ [][Next]_vars

----------------------------------------------------------------------------
(* The threshold banner, evaluated over rosters of up to six people *)

Staff == <<"A", "B", "C", "D", "E", "G">>

Row(name, emp_type) ==
    [name |-> name, employment_type |-> emp_type,
     clock_in |-> "09:00", clock_out |-> "18:00", break |-> 60, wage |-> 10000]

Insured(n) == [i \in 1..n |-> Row(Staff[i], "InsuredStandard")]

\* day lists that meet the threshold
FullLists ==
    {Insured(5),
     Append(Insured(5), Row("G", "BusinessIncome")),
     <<Row("A", "BusinessIncome")>> \o Insured(5)}

\* day lists that do not: absent (<<>>), four people, five rows of four people,
\* five people of whom one is business income
ThinLists ==
    {<<>>,
     Insured(4),
     Append(Insured(4), Row("A", "ShortHour")),
     Append(Insured(4), Row("G", "BusinessIncome"))}

\* the day list of every date: full on days a..b, thin elsewhere
Roster(a, b, full, thin) ==
    LET listOf(t) == IF t[3] \in a..b THEN full ELSE thin
        dates == {t \in DatesOf(FlagMonths) : listOf(t) # <<>>}
    IN  [k \in {ymd(t[1], t[2], t[3]) : t \in dates} |-> listOf(ParseKey(k))]

\* days 1..c closed in every month
ClosedPrefix(c) ==
    [k \in {ym(p[1], p[2]) : p \in FlagMonths} |->
        LET p == CHOOSE q \in FlagMonths : ym(q[1], q[2]) = k
        IN  1..(IF c < DaysInMonth(p[1], p[2]) THEN c ELSE DaysInMonth(p[1], p[2]))]

\* how many leading days are closed
ClosedCounts == {0, 1, 2, 3, 15, 27, 28, 29, 30, 31}

StaffDirectory ==
    [i \in DOMAIN Staff |-> [name |-> Staff[i], phone |-> "", role |-> "",
                             employment_type |-> "InsuredStandard", available_days |-> <<>>]]

InitFlag ==
    /\ employees = StaffDirectory
    /\ \E a \in {1, 3}, b \in 0..31, full \in FullLists, thin \in ThinLists :
           assignments = Roster(a, b, full, thin)
    /\ \E c \in ClosedCounts : closed = ClosedPrefix(c)
    /\ last = [op |-> "init"]

\* the banner
Evaluate(y, m) ==
    /\ last' = [op |-> "biz_flag", y |-> y, m |-> m,
                result |-> biz_flag_for_month(assignments, closed, y, m)]
    /\ UNCHANGED <<employees, assignments, closed>>

NextFlag == \E p \in FlagMonths : Evaluate(p[1], p[2])

SpecFlag == InitFlag /\ [][NextFlag]_vars

----------------------------------------------------------------------------
(* The day-token parser, applied to every short text *)

RECURSIVE TextsOfLen(_)
TextsOfLen(n) ==
    IF n = 0 THEN {<<>>}
    ELSE {Append(t, ch) : t \in TextsOfLen(n - 1), ch \in TextAlphabet}

ExampleTexts ==
    {<<"M", ",", "W", ",", "F">>, <<"M", "/", "W", "/", "F">>, <<"M", "W", "F">>,
     <<"M", "·", "W", "·", "F">>, <<"M", "ㆍ", "W", "ㆍ", "F">>,
     <<"M", " ", "W", " ", "F">>, <<"M", "|", "W", ";", "F">>}

Texts == UNION {TextsOfLen(n) : n \in 0..MaxText} \cup ExampleTexts \cup {NaN}

InitDays ==
    /\ employees = <<>>
    /\ assignments = EmptyDict
    /\ closed = EmptyDict
    /\ \E raw \in Texts : last = [op |-> "text", raw |-> raw]

Parse ==
    /\ last.op = "text"
    /\ last' = [op |-> "normalize_days", raw |-> last.raw, days |-> normalize_days(last.raw)]
    /\ UNCHANGED <<employees, assignments, closed>>

NextDays == Parse

SpecDays == InitDays /\ [][NextDays]_vars

----------------------------------------------------------------------------
(* Worked minutes, computed for clock times across the day *)

ClockHours == {0, 9, 18, 23}

ClockMinutes == {0, 30, 59}

\* break minutes: negative, zero, short, longer than any shift
Breaks == {-60, -1, 0, 1, 60, 540, 1500}

DigitChar == <<"0", "1", "2", "3", "4", "5", "6", "7", "8", "9">>

\* a clock time as the day form and the automatic rows write it, HH:MM
Clock(h, m) ==
    <<DigitChar[(h \div 10) + 1], DigitChar[(h % 10) + 1], ":",
      DigitChar[(m \div 10) + 1], DigitChar[(m % 10) + 1]>>

Clocks == {Clock(h, m) : h \in ClockHours, m \in ClockMinutes}

InitMinutes ==
    /\ employees = <<>>
    /\ assignments = EmptyDict
    /\ closed = EmptyDict
    /\ \E cin \in Clocks, cout \in Clocks, brk \in Breaks :
           last = [op |-> "clock", cin |-> cin, cout |-> cout, brk |-> brk]

Compute ==
    /\ last.op = "clock"
    /\ last' = [op |-> "minutes_between", cin |-> last.cin, cout |-> last.cout,
                brk |-> last.brk,
                mins |-> minutes_between(last.cin, last.cout, last.brk)]
    /\ UNCHANGED <<employees, assignments, closed>>

NextMinutes == Compute

SpecMinutes == InitMinutes /\ [][NextMinutes]_vars

----------------------------------------------------------------------------
(* The import, applied to every short sheet *)

\* name cells: empty text, a space, a no-break space, an empty cell of the
\* sheet (NaN), a name with white space around it
NameCells == {<<>>, <<" ">>, <<NBSP>>, NaN, <<NBSP, "B", " ">>}

\* employment-type cells: a recognised type, an unknown word, an empty cell
TypeCells == {<<"DailyWorker", NBSP>>, <<"parttime">>, NaN}

DayCells == {<<"M">>, NaN}

SheetRows == {Cell(n, t, d) : n \in NameCells, t \in TypeCells, d \in DayCells}

RECURSIVE SheetsOfLen(_)
SheetsOfLen(n) ==
    IF n = 0 THEN {<<>>}
    ELSE {Append(sh, r) : sh \in SheetsOfLen(n - 1), r \in SheetRows}

InitImport ==
    /\ employees = <<>>
    /\ assignments = EmptyDict
    /\ closed = EmptyDict
    /\ \E n \in 0..MaxSheet : \E rows \in SheetsOfLen(n) :
           last = [op |-> "sheet", rows |-> rows]

Import ==
    /\ last.op = "sheet"
    /\ LET got == df_to_employees(last.rows)
       IN  last' = [op |-> "df_to_employees", rows |-> last.rows,
                    added |-> got.added, skipped |-> got.skipped]
    /\ UNCHANGED <<employees, assignments, closed>>

NextImport == Import

SpecImport == InitImport /\ [][NextImport]_vars

----------------------------------------------------------------------------
(* Properties: vocabulary *)

\* the weekday of the first of each month of the model, read from a printed
\* calendar of 2026 (Monday = 0): 1 Jan is a Thursday, 1 Feb a Sunday, 1 Apr a
\* Wednesday
FirstOfMonth == [k \in {"2026-01", "2026-02", "2026-04"} |->
                    IF k = "2026-01" THEN 3 ELSE IF k = "2026-02" THEN 6 ELSE 2]

\* the weekday token of a date, by counting on from the first of its month
CalendarToken(y, m, d) == KOREAN_DAYS[((FirstOfMonth[ym(y, m)] + d - 1) % 7) + 1]

ClosedIn(cls, y, m) == IF ym(y, m) \in DOMAIN cls THEN cls[ym(y, m)] ELSE {}

ListOn(asg, key) == IF key \in DOMAIN asg THEN asg[key] ELSE <<>>

\* the positions in the directory of the employees available on a date
AvailableOn(emps, y, m, d) ==
    {i \in DOMAIN emps : \E j \in DOMAIN emps[i].available_days :
                             emps[i].available_days[j] = CalendarToken(y, m, d)}

IsPrefix(s, t) == Len(s) <= Len(t) /\ \A i \in DOMAIN s : t[i] = s[i]

\* the j-th smallest member of a set of positions
Nth(positions, j) == CHOOSE i \in positions : Cardinality({x \in positions : x <= i}) = j

\* t is s with the rows named n taken out, the others in their order
IsWithoutName(t, s, n) ==
    LET keep == {i \in DOMAIN s : s[i].name # n}
    IN  /\ Len(t) = Cardinality(keep)
        /\ \A j \in DOMAIN t : t[j] = s[Nth(keep, j)]

----------------------------------------------------------------------------
(* C1 *)

\* C1: on every date, each employee name occurs in at most one row of the
\* day's list.
C1_NoDoubleBooking ==
    \A k \in DOMAIN assignments : \A i, j \in DOMAIN assignments[k] :
        assignments[k][i].name = assignments[k][j].name => i = j

----------------------------------------------------------------------------
(* C2 *)

\* a run over the month, started from what a first run left, changes nothing
SecondRunSame(once, y, m) == auto_assign_for_month(once, employees, closed, y, m) = once

\* C2: auto-assigning a month a second time, with nothing changed in between,
\* leaves the assignments exactly as the first run left them.
C2_AutoAssignIdempotent ==
    \A p \in Months :
        SecondRunSame(auto_assign_for_month(assignments, employees, closed, p[1], p[2]),
                      p[1], p[2])

\* an automatic run has just filled a day with two people, on top of a
\* manual row
C2_Witness ==
    /\ last.op = "auto_assign"
    /\ \E k \in DOMAIN assignments :
          /\ Len(assignments[k]) >= 2
          /\ \E i, j \in DOMAIN assignments[k] :
                /\ assignments[k][i].clock_in = "10:00"
                /\ assignments[k][j].clock_in = "09:00"

----------------------------------------------------------------------------
(* C3 *)

\* C3: removing an employee leaves no row with that name on any date, leaves
\* no date with an empty list (a date emptied by the removal is gone from the
\* store), and leaves the rows of the other names as they were, in their order.
C3_RemoveEmployeeCascades ==
    [][last'.op = "remove_employee" =>
          /\ \A k \in DOMAIN assignments' :
                /\ assignments'[k] # <<>>
                /\ \A i \in DOMAIN assignments'[k] : assignments'[k][i].name # last'.name
          /\ DOMAIN assignments' \subseteq DOMAIN assignments
          /\ \A k \in DOMAIN assignments :
                IsWithoutName(ListOn(assignments', k), assignments[k], last'.name)]_vars

\* an employee with rows on two dates was removed: one date kept the rows of
\* another name, one date was emptied and dropped
C3_Witness ==
    /\ last.op = "remove_employee"
    /\ Cardinality(last.hit) >= 2
    /\ last.dropped # {}
    /\ \E k \in last.hit : k \in DOMAIN assignments

----------------------------------------------------------------------------
(* C6 *)

\* C6: after an automatic run over a month, every open day of the month lists
\* every employee available on that day's weekday; each row the run added
\* carries the name and employment type of the first available directory entry
\* of that name and the defaults 09:00-18:00, break 60, wage 10000; and the
\* added rows follow directory order.
C6_AutoAssignFills ==
    [][last'.op = "auto_assign" =>
          LET y == last'.y
              m == last'.m
          IN  \A d \in 1..DaysInMonth(y, m) :
                  LET key == ymd(y, m, d)
                      old == ListOn(assignments, key)
                      new == ListOn(assignments', key)
                      avail == AvailableOn(employees, y, m, d)
                      first(n) == Nth({i \in avail : employees[i].name = n}, 1)
                  IN  d \notin ClosedIn(closed, y, m) =>
                        /\ \A i \in avail : \E j \in DOMAIN new : new[j].name = employees[i].name
                        /\ \A j \in (Len(old) + 1)..Len(new) :
                              /\ \E i \in avail : employees[i].name = new[j].name
                              /\ new[j] = [name |-> new[j].name,
                                           employment_type |-> employees[first(new[j].name)].employment_type,
                                           clock_in |-> "09:00", clock_out |-> "18:00",
                                           break |-> 60, wage |-> 10000]
                        /\ \A j1, j2 \in (Len(old) + 1)..Len(new) :
                              j1 < j2 => first(new[j1].name) < first(new[j2].name)]_vars

\* an automatic run over January 2026 has put two people, in directory order,
\* on Monday the 12th
C6_Witness ==
    /\ last.op = "auto_assign"
    /\ Len(employees) = 2
    /\ employees[1].name # employees[2].name
    /\ "2026-01-12" \in DOMAIN assignments
    /\ Len(assignments["2026-01-12"]) = 2
    /\ assignments["2026-01-12"][1].name = employees[1].name
    /\ assignments["2026-01-12"][2].name = employees[2].name

----------------------------------------------------------------------------
(* C7 *)

\* C7: an automatic run only appends: every list it found is a prefix of the
\* list it leaves; the dates outside the month, the closed days and the days
\* with no available employee keep their list, or stay absent; the directory
\* and the closed days are unchanged.
C7_AutoAssignOnlyAppends ==
    [][last'.op = "auto_assign" =>
          /\ employees' = employees
          /\ closed' = closed
          /\ \A k \in DOMAIN assignments :
                k \in DOMAIN assignments' /\ IsPrefix(assignments[k], assignments'[k])
          /\ \A t \in AllDates :
                LET key == ymd(t[1], t[2], t[3])
                IN  (\/ <<t[1], t[2]>> # <<last'.y, last'.m>>
                     \/ t[3] \in ClosedIn(closed, t[1], t[2])
                     \/ AvailableOn(employees, t[1], t[2], t[3]) = {})
                    => /\ (key \in DOMAIN assignments') = (key \in DOMAIN assignments)
                       /\ key \in DOMAIN assignments => assignments'[key] = assignments[key]
          /\ DOMAIN assignments' \subseteq {ymd(t[1], t[2], t[3]) : t \in AllDates}]_vars

\* a later automatic run: the closed 5th keeps the single row it had, while
\* the 12th holds the rows of two runs
C7_Witness ==
    /\ last.op = "auto_assign"
    /\ 5 \in ClosedIn(closed, 2026, 1)
    /\ "2026-01-05" \in DOMAIN assignments
    /\ Len(assignments["2026-01-05"]) = 1
    /\ "2026-01-12" \in DOMAIN assignments
    /\ Len(assignments["2026-01-12"]) = 2
    /\ "2026-02-05" \in DOMAIN assignments

----------------------------------------------------------------------------
(* C8 *)

\* C8: no two records of the employee directory have the same name.
C8_UniqueEmployeeNames ==
    \A i, j \in DOMAIN employees : employees[i].name = employees[j].name => i = j

----------------------------------------------------------------------------
(* C9 *)

RowsNameEmployees ==
    \A k \in DOMAIN assignments : \A i \in DOMAIN assignments[k] :
        \E e \in DOMAIN employees : employees[e].name = assignments[k][i].name

\* C9: every row names an employee of the directory; and a manual shift for a
\* name the directory does not hold first appends that employee, available on
\* exactly the weekday of the shift's date.
C9_RowsNameEmployees ==
    /\ []RowsNameEmployees
    /\ [][(/\ last'.op = "add_shift"
           /\ last'.name # ""
           /\ \A e \in DOMAIN employees : employees[e].name # last'.name)
          => LET t == CHOOSE t \in AllDates : ymd(t[1], t[2], t[3]) = last'.key
             IN  /\ Len(employees') = Len(employees) + 1
                 /\ SubSeq(employees', 1, Len(employees)) = employees
                 /\ employees'[Len(employees')].name = last'.name
                 /\ employees'[Len(employees')].available_days
                        = <<CalendarToken(t[1], t[2], t[3])>>]_vars

\* a shift typed for B into an empty directory registered B for Mondays
C9_Witness ==
    /\ last.op = "add_shift"
    /\ last.name = "B"
    /\ Len(employees) = 1
    /\ employees[1].name = "B"
    /\ employees[1].available_days = <<"M">>
    /\ "2026-01-05" \in DOMAIN assignments
    /\ assignments["2026-01-05"][1].name = "B"

----------------------------------------------------------------------------
(* C4, C5 *)

\* the lengths of the months of the model, read from a printed calendar
MonthLength == [k \in {"2026-01", "2026-02", "2026-04"} |->
                   IF k = "2026-01" THEN 31 ELSE IF k = "2026-02" THEN 28 ELSE 30]

OpenDays(y, m) == (1..MonthLength[ym(y, m)]) \ ClosedIn(closed, y, m)

\* the assignments without the lists of the closed days of month (y, m)
WithoutClosedDays(asg, y, m) ==
    [k \in DOMAIN asg \ {ymd(y, m, d) : d \in ClosedIn(closed, y, m)} |-> asg[k]]

\* the people counted on a day: the names on rows that are not business income
Counted(list) ==
    {n \in {list[i].name : i \in DOMAIN list} :
        \E i \in DOMAIN list : list[i].name = n /\ list[i].employment_type # "BusinessIncome"}

MeetingDays(y, m) ==
    {d \in OpenDays(y, m) : Cardinality(Counted(ListOn(assignments, ymd(y, m, d)))) >= 5}

\* C4: the operating count returned is the number of days of the month less
\* the closed days, and 1 when that is 0; what is listed on closed days changes
\* nothing in the result; with every day closed the result is (under-5, 0, 1).
C4_OperatingDays ==
    last.op = "biz_flag" =>
        LET open == Cardinality(OpenDays(last.y, last.m))
        IN  /\ last.result[3] = (IF open >= 1 THEN open ELSE 1)
            /\ last.result[2] <= open
            /\ last.result = biz_flag_for_month(WithoutClosedDays(assignments, last.y, last.m),
                                                closed, last.y, last.m)
            /\ open = 0 => last.result = <<"under-5", 0, 1>>

\* February 2026 evaluated with all 28 days closed, the closed days holding
\* lists of five people
C4_Witness ==
    /\ last.op = "biz_flag"
    /\ last.m = 2
    /\ ClosedIn(closed, 2026, 2) = 1..28
    /\ Cardinality(Counted(ListOn(assignments, "2026-02-10"))) >= 5
    /\ last.result = <<"under-5", 0, 1>>

\* C5: the meet count returned is the number of open days on which at least
\* five different people, business-income rows set aside, are listed; the flag
\* is 5-or-more exactly when twice the meet count reaches the operating count.
C5_MeetAndFlag ==
    last.op = "biz_flag" =>
        /\ last.result[2] = Cardinality(MeetingDays(last.y, last.m))
        /\ last.result[1] \in {"5-or-more", "under-5"}
        /\ (last.result[1] = "5-or-more") = (2 * last.result[2] >= last.result[3])

\* April 2026: 30 days, 2 closed, 14 of the 28 open days meeting the threshold
C5_Witness ==
    /\ last.op = "biz_flag"
    /\ last.y = 2026 /\ last.m = 4
    /\ ClosedIn(closed, 2026, 4) = {1, 2}
    /\ Cardinality(MeetingDays(2026, 4)) = 14
    /\ \E d \in OpenDays(2026, 4) \ MeetingDays(2026, 4) :
           Len(ListOn(assignments, ymd(2026, 4, d))) = 5
    /\ last.result = <<"5-or-more", 14, 28>>

----------------------------------------------------------------------------
(* C10 *)

IsDay(ch) == \E k \in DOMAIN KOREAN_DAYS : KOREAN_DAYS[k] = ch

IsSep(ch) == ch \in {",", "|", "/", ";", " ", "·", "ㆍ"}

\* the text parsed: nothing for a missing value
TextOf(raw) == IF raw = NaN THEN <<>> ELSE raw

\* the positions from the first to the last character that is not white space
Core(t) ==
    LET solid == {i \in DOMAIN t : t[i] \notin WhiteSpace}
    IN  {i \in DOMAIN t : (\E a \in solid : a <= i) /\ (\E b \in solid : i <= b)}

\* a separator stands inside the text
IsSeparated(t) == \E i \in Core(t) : IsSep(t[i])

\* the positions of the piece that starts at position i: up to the next separator
PieceAt(t, i) == {j \in i..Len(t) : \A x \in i..j : ~IsSep(t[x])}

PieceStarts(t) == {i \in DOMAIN t : ~IsSep(t[i]) /\ (i = 1 \/ IsSep(t[i - 1]))}

\* the earliest weekday of the week among the characters at the positions
EarliestDay(t, positions) ==
    KOREAN_DAYS[CHOOSE k \in DOMAIN KOREAN_DAYS :
                    /\ \E j \in positions : t[j] = KOREAN_DAYS[k]
                    /\ \A k2 \in 1..(k - 1) : \A j \in positions : t[j] # KOREAN_DAYS[k2]]

\* what the text yields, as <<position, weekday>>: with separators, each piece
\* that holds a weekday yields, at its start, the earliest weekday of the week
\* it holds; without, each weekday character yields itself
Yields(t) ==
    IF IsSeparated(t)
    THEN {<<i, EarliestDay(t, PieceAt(t, i))>> :
              i \in {s \in PieceStarts(t) : \E j \in PieceAt(t, s) : IsDay(t[j])}}
    ELSE {<<i, t[i]>> : i \in {j \in DOMAIN t : IsDay(t[j])}}

FirstYield(t, d) == CHOOSE i \in DOMAIN t :
                        /\ <<i, d>> \in Yields(t)
                        /\ \A j \in 1..(i - 1) : <<j, d>> \notin Yields(t)

FirstOccurrence(t, d) == CHOOSE i \in DOMAIN t :
                             t[i] = d /\ \A j \in 1..(i - 1) : t[j] # d

NoRepeat(out) == \A i, j \in DOMAIN out : out[i] = out[j] => i = j

\* no piece holds two different weekdays
OneDayPerPiece(t) ==
    \A s \in PieceStarts(t) : \A i, j \in PieceAt(t, s) :
        IsDay(t[i]) /\ IsDay(t[j]) => t[i] = t[j]

\* C10 as stated: the result holds weekday tokens, none twice, in the order of
\* their first occurrence in the text.
C10_FirstOccurrenceOrder ==
    last.op = "normalize_days" =>
        LET t == TextOf(last.raw)
            out == last.days
        IN  /\ \A i \in DOMAIN out : IsDay(out[i]) /\ \E j \in DOMAIN t : t[j] = out[i]
            /\ NoRepeat(out)
            /\ \A i, j \in DOMAIN out :
                   i < j => FirstOccurrence(t, out[i]) < FirstOccurrence(t, out[j])

\* C10, amended: the result holds, none twice, exactly the weekdays the text
\* yields, in the order of their first yield (a piece between separators yields
\* the earliest weekday of the week it holds, whatever its place in the piece);
\* this is the order of first occurrence in the text when no piece holds two
\* different weekdays or the text has no separator; the four example spellings
\* give Mon, Wed, Fri; a missing, empty or blank text gives the empty sequence.
C10_DayTokens ==
    last.op = "normalize_days" =>
        LET t == TextOf(last.raw)
            out == last.days
        IN  /\ NoRepeat(out)
            /\ {out[i] : i \in DOMAIN out} = {y[2] : y \in Yields(t)}
            /\ \A i, j \in DOMAIN out :
                   i < j => FirstYield(t, out[i]) < FirstYield(t, out[j])
            /\ (~IsSeparated(t) \/ OneDayPerPiece(t)) =>
                   \A i, j \in DOMAIN out :
                       i < j => FirstOccurrence(t, out[i]) < FirstOccurrence(t, out[j])
            /\ last.raw \in ExampleTexts => out = <<"M", "W", "F">>
            /\ Core(t) = {} => out = <<>>

\* "WM,W": the first piece yields Monday, though Wednesday comes first in it
C10_Witness ==
    /\ last.op = "normalize_days"
    /\ last.raw = <<"W", "M", ",", "W">>
    /\ last.days = <<"M", "W">>

----------------------------------------------------------------------------
(* C11 *)

\* a name cell that is missing, empty or only white space
IsBlankName(cell) == cell = NaN \/ \A j \in DOMAIN cell : cell[j] \in WhiteSpace

\* a text cell without the white space around it, as stored text
Trimmed(cell) ==
    LET t == TextOf(cell)
    IN  Join([j \in 1..Cardinality(Core(t)) |-> t[Nth(Core(t), j)]])

\* the category an employment-type cell stands for
CategoryOf(cell) ==
    IF \E k \in DOMAIN EMP_TYPES : Trimmed(cell) = EMP_TYPES[k]
    THEN Trimmed(cell) ELSE "InsuredStandard"

\* C11: the import is partial-success: every row whose name is empty, blank
\* or a missing cell is reported as skipped with the reason "missing name"
\* and is not among the added employees; every other row is added exactly
\* once, in row order; an employment type outside the four categories
\* becomes the first category.
C11_ImportPartialSuccess ==
    last.op = "df_to_employees" =>
        LET rows == last.rows
            blank == {i \in DOMAIN rows : IsBlankName(rows[i].name)}
            named == DOMAIN rows \ blank
        IN  /\ \A i \in blank :
                   \E j \in DOMAIN last.skipped : last.skipped[j] = <<i + 1, "missing name">>
            /\ Len(last.skipped) = Cardinality(blank)
            /\ Len(last.added) = Cardinality(named)
            /\ \A j \in DOMAIN last.added :
                   j <= Cardinality(named) =>
                     /\ last.added[j].name = Trimmed(rows[Nth(named, j)].name)
                     /\ last.added[j].employment_type =
                            CategoryOf(rows[Nth(named, j)].employment_type)

----------------------------------------------------------------------------
(* C12 *)

\* the minute of the day a clock text HH:MM denotes, read off the table of
\* the clock times of the model
MinuteOfDay(text) ==
    LET t == CHOOSE p \in ClockHours \X ClockMinutes : Clock(p[1], p[2]) = text
    IN  60 * t[1] + t[2]

\* C12: the worked minutes are max(0, out - in - max(0, break)): never
\* negative, a negative break counts as 0, a clock-out at or before the
\* clock-in gives 0 with no wrap past midnight, and 09:00-18:00 with a break
\* of 60 gives 480.
C12_MinutesWorked ==
    last.op = "minutes_between" =>
        LET tin == MinuteOfDay(last.cin)
            tout == MinuteOfDay(last.cout)
            rest == IF last.brk < 0 THEN 0 ELSE last.brk
            span == tout - tin - rest
        IN  /\ last.mins = (IF span > 0 THEN span ELSE 0)
            /\ last.mins >= 0
            /\ tout <= tin => last.mins = 0
            /\ (last.cin = <<"0", "9", ":", "0", "0">> /\ last.cout = <<"1", "8", ":", "0", "0">>
                    /\ last.brk = 60) => last.mins = 480

\* a shift from 23:30 to 09:00 with a break of -60 was computed: 0 minutes
C12_Witness ==
    /\ last.op = "minutes_between"
    /\ last.cin = <<"2", "3", ":", "3", "0">>
    /\ last.cout = <<"0", "9", ":", "0", "0">>
    /\ last.brk = -60
    /\ last.mins = 0

----------------------------------------------------------------------------
(* C13 *)

\* C13: no date of the store maps to an empty list; a date is either absent
\* or has at least one row, whatever operations came before.
C13_NoEmptyDay ==
    \A k \in DOMAIN assignments : assignments[k] # <<>>

\* an automatic run over a month with a non-empty directory has just ended:
\* an open day on which nobody is available has no key, an open day on which
\* somebody is available has rows, and a manual row entered before the run
\* is still there
C13_Witness ==
    /\ last.op = "auto_assign"
    /\ employees # <<>>
    /\ \E d \in OpenDays(last.y, last.m) :
          /\ AvailableOn(employees, last.y, last.m, d) = {}
          /\ ymd(last.y, last.m, d) \notin DOMAIN assignments
    /\ \E d \in OpenDays(last.y, last.m) :
          /\ AvailableOn(employees, last.y, last.m, d) # {}
          /\ ymd(last.y, last.m, d) \in DOMAIN assignments
    /\ \E k \in DOMAIN assignments : \E i \in DOMAIN assignments[k] :
          assignments[k][i].clock_in = "10:00"

====
